---- MODULE Spec2Model ----
(***************************************************************************)
(* Model of verify.py: the hash / convert / compare pipeline.              *)
(*                                                                         *)
(*   hash     walks a tree and writes a ScanLog (ROOT line + one line per  *)
(*            entry),                                                      *)
(*   convert  loads a ScanLog into the SQLite table `data`,                *)
(*   compare  looks every record of a second ScanLog up in that table and  *)
(*            writes OK / MISSING / MISMATCH lines.                        *)
(*                                                                         *)
(* Values that cross a conversion (JSON text, SQLite column affinity,      *)
(* Python equality) carry their dynamic type, so that "1" (str) and 1      *)
(* (int) are different values, as they are for Python's ==.                *)
(***************************************************************************)
EXTENDS Integers, Sequences, FiniteSets, TLC

(* ---------------------------- bounds ----------------------------------- *)

\* number of tree modifications between the first and the second scan
MaxEdits == 1

\* largest commit / progress interval tried in place of the literal 100000
MaxBatch == 2

\* number of convert runs attempted on the same destination
MaxConverts == 2

(* ------------------------ dynamically typed values --------------------- *)

None == [t |-> "none", s |-> <<>>, n |-> 0]

\* a Python str; s is the text, kept as the sequence of its path components
PyStr(s) == [t |-> "str", s |-> s, n |-> 0]

\* a Python int
PyInt(n) == [t |-> "int", s |-> <<>>, n |-> n]

\* a Python float; n is its value (the floats of the model are whole numbers)
PyFloat(n) == [t |-> "real", s |-> <<>>, n |-> n]

IsNum(v) == v.t \in {"int", "real"}

\* Python's == on two field values: numbers compare by value across int and
\* float, a str never equals a number.
PyEq(a, b) ==
    \/ a.t = "str" /\ b.t = "str" /\ a.s = b.s
    \/ IsNum(a) /\ IsNum(b) /\ a.n = b.n
    \/ a.t = "none" /\ b.t = "none"

(* ------------------------------ FileInfo ------------------------------- *)

\* FileInfo._fields, in declaration order
Fields == <<"path", "mode", "uid", "gid", "mtime", "size", "digest">>

FieldSet == {Fields[i] : i \in 1..Len(Fields)}

NoInfo == [f \in FieldSet |-> None]

(* ------------------------------- stat ---------------------------------- *)

S_IFDIR == 16384
S_IFREG == 32768
S_IFLNK == 40960

\* mode & 0o170000
S_IFMT(mode) == ((mode \div 4096) % 16) * 4096

S_ISDIR(mode) == S_IFMT(mode) = S_IFDIR
S_ISREG(mode) == S_IFMT(mode) = S_IFREG
S_ISLNK(mode) == S_IFMT(mode) = S_IFLNK

(* ------------------------------ the tree ------------------------------- *)

\* the root directory given to `hash`, an absolute path
Root == <<"r">>

\* entry names in code point order, the order of Python's sorted() on str
NameOrder == <<"1", "a", "b", "d", "l">>

Rank(name) == CHOOSE i \in 1..Len(NameOrder) : NameOrder[i] = name

\* the paths (relative to Root) at which the modelled trees may hold an entry
EntryPaths ==
    { <<"1">>, <<"a">>, <<"d">>, <<"l">>, <<"a", "b">>, <<"a", "b", "b">>, <<"d", "b">> }

\* what lstat() and the content of an entry give: data is the content of a
\* regular file or the target of a symlink
NoEntry == [mode |-> 0, uid |-> 0, gid |-> 0, mtime |-> 0, size |-> 0, data |-> "-"]

FileHi  == [mode |-> 33188, uid |-> 0, gid |-> 0, mtime |-> 10, size |-> 2, data |-> "hi"]
FileBye == [mode |-> 33188, uid |-> 0, gid |-> 0, mtime |-> 20, size |-> 3, data |-> "bye"]
Dir4k   == [mode |-> 16877, uid |-> 0, gid |-> 0, mtime |-> 10, size |-> 4096, data |-> ""]
Dir8k   == [mode |-> 16877, uid |-> 0, gid |-> 0, mtime |-> 10, size |-> 8192, data |-> ""]
Dir8kLater == [mode |-> 16877, uid |-> 0, gid |-> 0, mtime |-> 20, size |-> 8192, data |-> ""]
LinkToD == [mode |-> 41471, uid |-> 0, gid |-> 0, mtime |-> 10, size |-> 1, data |-> "d"]

\* the entries each path may hold
Variants(p) ==
    IF p = <<"1">> THEN {NoEntry, FileHi}
    ELSE IF p = <<"a">> THEN {NoEntry, FileHi, FileBye, Dir4k}
    ELSE IF p = <<"d">> THEN {NoEntry, Dir4k, Dir8k, Dir8kLater}
    ELSE IF p = <<"l">> THEN {NoEntry, LinkToD}
    ELSE IF p = <<"a", "b">> THEN {NoEntry, FileHi, Dir4k}
    ELSE {NoEntry, FileHi}

Parent(p) == SubSeq(p, 1, Len(p) - 1)

Exists(t, p) == p \in EntryPaths /\ t[p] # NoEntry

\* a tree: every entry's parent is the root or a directory of the tree
WellFormed(t) ==
    \A p \in EntryPaths :
        (t[p] # NoEntry /\ Len(p) > 1) =>
            (Exists(t, Parent(p)) /\ S_ISDIR(t[Parent(p)].mode))

Trees == { t \in [EntryPaths -> UNION {Variants(p) : p \in EntryPaths}] :
              /\ \A p \in EntryPaths : t[p] \in Variants(p)
              /\ WellFormed(t) }

\* names of the entries directly inside directory dir (relative to Root)
Children(t, dir) ==
    { p[Len(p)] : p \in { q \in EntryPaths : Exists(t, q) /\ Parent(q) = dir } }

\* DirEntry.is_dir(): follows a symlink, whose target is resolved against the
\* directory holding the link
IsDirFollow(t, p) ==
    IF S_ISLNK(t[p].mode)
    THEN LET target == Append(Parent(p), t[p].data)
         IN  Exists(t, target) /\ S_ISDIR(t[target].mode)
    ELSE S_ISDIR(t[p].mode)

(* ------------------------------ digests -------------------------------- *)

\* hashlib.sha1(data).hexdigest() for the contents the model uses
Sha1(data) ==
    IF data = "" THEN "da39a3ee5e6b4b0d3255bfef95601890afd80709"
    ELSE IF data = "hi" THEN "c22b5f9178342609428d6f51b2c5af4c0bde6a42"
    ELSE IF data = "bye" THEN "78c9a53e2f28b543ea62c8266acfdf36d5c63e61"
    ELSE IF data = "d" THEN "3c363836cf4e16666669a25da280a1865c2d2874"
    ELSE "?"

\* make_digest: the content of a regular file, the target of a symlink, the
\* empty input for everything else
make_digest(entry) ==
    IF S_ISREG(entry.mode) THEN Sha1(entry.data)
    ELSE IF S_ISLNK(entry.mode) THEN Sha1(entry.data)
    ELSE Sha1("")

(* ------------------------- the line format -------------------------- *)

\* A line of text is the sequence of its lexical pieces: the tag, the space
\* after it, the pieces of the JSON payload and the newline.  A file cut at
\* any byte holds a prefix of these pieces in its last line.
Tok(k, v) == [k |-> k, v |-> v]

\* json.dumps of a str
dumps_str(v) == << Tok("quote", None), Tok("chars", v), Tok("quote", None) >>

\* json.dumps of FileInfo._asdict(): the keys in field order
dumps_obj(info) ==
    << Tok("{", None) >> \o [i \in 1..Len(Fields) |-> Tok(Fields[i], info[Fields[i]])]
        \o << Tok("}", None) >>

\* println: print(f"{tag} {json.dumps(data)}"), which ends the line
println(tag, json) ==
    << Tok("tag", PyStr(<<tag>>)), Tok("sp", None) >> \o json \o << Tok("nl", None) >>

\* the result of a call that may raise
Raised == [ok |-> FALSE, tag |-> "", kind |-> "none", str |-> None, obj |-> NoInfo]

\* json.loads: a str, an object, or an exception; white space at the end is
\* ignored
loads(text) ==
    LET body == IF Len(text) > 0 /\ text[Len(text)].k = "nl"
                THEN SubSeq(text, 1, Len(text) - 1) ELSE text
    IN  IF /\ Len(body) = 3
           /\ body[1].k = "quote" /\ body[2].k = "chars" /\ body[3].k = "quote"
        THEN [ok |-> TRUE, tag |-> "", kind |-> "str", str |-> body[2].v, obj |-> NoInfo]
        ELSE IF /\ Len(body) >= 2
                /\ body[1].k = "{" /\ body[Len(body)].k = "}"
                /\ \A i \in 2..(Len(body) - 1) : body[i].k \in FieldSet
        THEN [ok |-> TRUE, tag |-> "", kind |-> "obj", str |-> None,
              obj |-> [f \in FieldSet |->
                         IF \E i \in 2..(Len(body) - 1) : body[i].k = f
                         THEN body[CHOOSE i \in 2..(Len(body) - 1) : body[i].k = f].v
                         ELSE None]]
        ELSE Raised

\* parseln: line.split(" ", maxsplit=1) must give two parts, the second one
\* is parsed as JSON
parseln(line) ==
    IF Len(line) < 2 \/ line[1].k # "tag" \/ line[2].k # "sp"
    THEN Raised
    ELSE [loads(SubSeq(line, 3, Len(line))) EXCEPT !.tag = line[1].v.s[1]]

\* FileInfo(**data): data must be a dict holding every field
FileInfoOf(parsed) ==
    IF parsed.ok /\ parsed.kind = "obj" /\ \A f \in FieldSet : parsed.obj[f] # None
    THEN parsed
    ELSE Raised

\* Path(data) for the ROOT line: data must be a str
RootOf(parsed) ==
    IF parsed.ok /\ parsed.kind = "str" THEN parsed ELSE Raised

\* path.relative_to(root): the part of path below root, ValueError otherwise
IsUnder(path, root) ==
    Len(path) >= Len(root) /\ SubSeq(path, 1, Len(root)) = root

relative_to(path, root) == SubSeq(path, Len(root) + 1, Len(path))

(* ------------------------------ sorting ------------------------------ *)

RECURSIVE InsertSorted(_, _)
InsertSorted(sortedSeq, name) ==
    IF sortedSeq = <<>> THEN <<name>>
    ELSE IF Rank(name) < Rank(Head(sortedSeq)) THEN <<name>> \o sortedSeq
    ELSE <<Head(sortedSeq)>> \o InsertSorted(Tail(sortedSeq), name)

\* the names left in the order the directory was read
Unsorted(names) == names

\* sorted(names): names is the list in the order the directory was read
RECURSIVE sorted(_)
sorted(names) ==
    IF names = <<>> THEN <<>>
    ELSE InsertSorted(sorted(Tail(names)), Head(names))

\* every order in which the names of a set can be listed
Listings(S) ==
    { l \in [1..Cardinality(S) -> S] : \A i, j \in 1..Cardinality(S) : i # j => l[i] # l[j] }

(* ------------------------------ SQLite -------------------------------- *)

\* the texts of the model that SQLite reads as a numeric literal
IsNumericLiteral(s) == Len(s) = 1 /\ s[1] \in {"1"}

LiteralValue(s) == IF s[1] = "1" THEN 1 ELSE 0

\* Column affinity of a column declared STR (path, digest).  SQLite derives
\* the affinity from the declared type: a type holding none of INT, CHAR,
\* CLOB, TEXT, BLOB, REAL, FLOA, DOUB gets NUMERIC affinity, under which a
\* text that is a numeric literal is stored as a number.
NumericAffinity(v) ==
    IF v.t = "str" /\ IsNumericLiteral(v.s) THEN PyInt(LiteralValue(v.s)) ELSE v

\* Column affinity of a column declared INT (mode, uid, gid, size)
IntegerAffinity(v) ==
    IF v.t = "str" /\ IsNumericLiteral(v.s) THEN PyInt(LiteralValue(v.s))
    ELSE IF v.t = "real" THEN PyInt(v.n)
    ELSE v

\* Column affinity of a column declared REAL (mtime)
RealAffinity(v) ==
    IF v.t = "str" /\ IsNumericLiteral(v.s) THEN PyFloat(LiteralValue(v.s))
    ELSE IF v.t = "int" THEN PyFloat(v.n)
    ELSE v

\* SQLite's = on two stored values: numbers by value, texts by content, a
\* number never equals a text
SqlEq(a, b) ==
    \/ a.t = "str" /\ b.t = "str" /\ a.s = b.s
    \/ IsNum(a) /\ IsNum(b) /\ a.n = b.n

\* the row INSERT INTO data VALUES (?, ?, ?, ?, ?, ?, ?) stores for info
StoredRow(info) ==
    [path   |-> NumericAffinity(info["path"]),
     mode   |-> IntegerAffinity(info["mode"]),
     uid    |-> IntegerAffinity(info["uid"]),
     gid    |-> IntegerAffinity(info["gid"]),
     mtime  |-> RealAffinity(info["mtime"]),
     size   |-> IntegerAffinity(info["size"]),
     digest |-> NumericAffinity(info["digest"])]

\* a table without the key: no row conflicts with a new one
NoKey(rows, row) == FALSE

\* PRIMARY KEY on path: the rows that conflict with a new row
Conflicts(rows, row) ==
    \E i \in 1..Len(rows) : SqlEq(rows[i]["path"], row["path"])

\* SELECT * FROM data WHERE path = ?: the parameter takes the affinity of the
\* column before it is compared
Select(rows, param) ==
    LET key == NumericAffinity(param)
        Match(r) == SqlEq(r["path"], key)
    IN  SelectSeq(rows, Match)

(* ------------------------------- state -------------------------------- *)

VARIABLES
    tree,      \* the file system below Root
    edits,     \* number of modifications of the tree so far
    scan,      \* the hash process: pc, target log, directories still to walk
    log,       \* the two ScanLog files: "A" is indexed, "B" is compared
    fault,     \* the fault this run of the pipeline has suffered, "none" so far
    conv,      \* the convert process
    db,        \* the destination database: what is durable in the file
    txn,       \* rows inserted in the open transaction, not yet committed
    cmp,       \* the compare process
    report,    \* the ComparisonReport written by compare
    diag,      \* the messages logged to stderr
    hist       \* per record read by compare: what was found and emitted

vars == << tree, edits, scan, log, fault, conv, db, txn, cmp, report, diag, hist >>

Ended(pc) == pc \in {"done", "aborted", "killed"}

Init ==
    /\ tree \in Trees
    /\ edits = 0
    /\ scan = [pc |-> "idle", target |-> "A", walk |-> <<>>]
    /\ log = [A |-> <<>>, B |-> <<>>]
    /\ fault = "none"
    /\ conv = [pc |-> "idle", pos |-> 0, rows_seen |-> 0, root |-> <<>>, batch |-> 1, runs |-> 0]
    /\ db = [table |-> FALSE, rows |-> <<>>]
    /\ txn = <<>>
    /\ cmp = [pc |-> "idle", pos |-> 0, rows_seen |-> 0, root |-> <<>>]
    /\ report = <<>>
    /\ diag = <<>>
    /\ hist = <<>>

(* -------------------------------- hash -------------------------------- *)

\* os.lstat(entry) and make_digest(entry, mode) packed as FileInfo
InfoOf(t, rel) ==
    [path   |-> PyStr(Root \o rel),
     mode   |-> PyInt(t[rel].mode),
     uid    |-> PyInt(t[rel].uid),
     gid    |-> PyInt(t[rel].gid),
     mtime  |-> PyFloat(t[rel].mtime),
     size   |-> PyInt(t[rel].size),
     digest |-> PyStr(<<make_digest(t[rel])>>)]

\* the line written for one entry: DIR for a directory, FILE for the rest
EntryLine(t, rel) ==
    println(IF S_ISDIR(t[rel].mode) THEN "DIR" ELSE "FILE", dumps_obj(InfoOf(t, rel)))

\* One iteration of `for (dirpath, dirnames, filenames) in os.walk(root)`.
\* listing is the order in which the directory is read; os.walk puts the
\* names for which is_dir() holds (symlinks followed) into dirnames and the
\* others into filenames, and afterwards descends into the dirnames that
\* are not symlinks, in the order the loop body left them in.
WalkStep(t, dirpath, listing) ==
    LET IsDirName(name) == IsDirFollow(t, Append(dirpath, name))
        IsFileName(name) == ~IsDirFollow(t, Append(dirpath, name))
        Descend(name) == ~S_ISLNK(t[Append(dirpath, name)].mode)
        dirnames == sorted(SelectSeq(listing, IsDirName))
        filenames == sorted(SelectSeq(listing, IsFileName))
        names == dirnames \o filenames
        into == SelectSeq(dirnames, Descend)
    IN  [lines |-> [i \in 1..Len(names) |-> EntryLine(t, Append(dirpath, names[i]))],
         into  |-> [i \in 1..Len(into) |-> Append(dirpath, into[i])]]

\* do_hash up to the loop: open the output and write the ROOT line
HashStart ==
    /\ IF scan.pc = "idle" THEN TRUE
       ELSE Ended(scan.pc) /\ scan.target = "A" /\ Ended(conv.pc)
    /\ LET target == IF scan.pc = "idle" THEN "A" ELSE "B"
       IN  /\ scan' = [pc |-> "walk", target |-> target, walk |-> << <<>> >>]
           /\ log' = [log EXCEPT ![target] = << println("ROOT", dumps_str(PyStr(Root))) >>]
    /\ UNCHANGED << tree, edits, fault, conv, db, txn, cmp, report, diag, hist >>

\* one directory of the walk: its entries are written, its subdirectories
\* are queued before the directories already waiting
HashVisit ==
    /\ scan.pc = "walk"
    /\ scan.walk # <<>>
    /\ \E listing \in Listings(Children(tree, Head(scan.walk))) :
          LET step == WalkStep(tree, Head(scan.walk), listing)
          IN  /\ log' = [log EXCEPT ![scan.target] = @ \o step.lines]
              /\ scan' = [scan EXCEPT !.walk = step.into \o Tail(@)]
    /\ UNCHANGED << tree, edits, fault, conv, db, txn, cmp, report, diag, hist >>

\* the walk is over: the output is closed
HashFinish ==
    /\ scan.pc = "walk"
    /\ scan.walk = <<>>
    /\ scan' = [scan EXCEPT !.pc = "done"]
    /\ UNCHANGED << tree, edits, log, fault, conv, db, txn, cmp, report, diag, hist >>

\* the bytes of a file of which only the first `keep` pieces of line `last`
\* and the lines before it reached the disk
Prefix(lines, last, keep) ==
    SubSeq(lines, 1, last - 1)
        \o (IF keep = 0 THEN <<>> ELSE << SubSeq(lines[last], 1, keep) >>)

\* Where a line of n pieces may be cut: before it, after the tag, after the
\* space, after the first piece of the payload, before the last piece of
\* the payload, and before the newline.
CutPoints(n) == {0, 1, 2, 3, n - 2, n - 1} \cap 0..(n - 1)

\* the process is interrupted: the output file holds a prefix of what was
\* written (it is buffered, so the cut may fall anywhere)
HashKill ==
    /\ scan.pc = "walk"
    /\ fault = "none"
    /\ fault' = "hash killed"
    /\ \E last \in 1..Len(log[scan.target]) :
       \E keep \in CutPoints(Len(log[scan.target][last])) :
          log' = [log EXCEPT ![scan.target] = Prefix(@, last, keep)]
    /\ scan' = [scan EXCEPT !.pc = "killed", !.walk = <<>>]
    /\ UNCHANGED << tree, edits, conv, db, txn, cmp, report, diag, hist >>

\* the tree changes between the two scans: one entry is created, removed or
\* replaced
Edit ==
    /\ scan.target = "A" /\ Ended(scan.pc) /\ Ended(conv.pc)
    /\ edits < MaxEdits
    /\ \E p \in EntryPaths : \E v \in Variants(p) :
          /\ v # tree[p]
          /\ WellFormed([tree EXCEPT ![p] = v])
          /\ tree' = [tree EXCEPT ![p] = v]
    /\ edits' = edits + 1
    /\ UNCHANGED << scan, log, fault, conv, db, txn, cmp, report, diag, hist >>

\* a corrupt source log: one record line occurs a second time
DuplicateLine ==
    /\ scan.target = "A" /\ scan.pc = "done" /\ conv.pc = "idle"
    /\ fault = "none"
    /\ \E i \in 2..Len(log["A"]) : log' = [log EXCEPT !["A"] = Append(@, log["A"][i])]
    /\ fault' = "duplicate"
    /\ UNCHANGED << tree, edits, scan, conv, db, txn, cmp, report, diag, hist >>

(* ------------------------------- convert ------------------------------ *)

\* fp.readline(): the next line, the empty string at the end of the file
readline(file, pos) == IF pos <= Len(file) THEN file[pos] ELSE <<>>

Message(who, msg, n) == [who |-> who, msg |-> msg, n |-> n]

\* an exception reaches the top level: it is logged, the process exits with
\* status 1, and the connection goes away with its open transaction
Uncaught(who) == Append(diag, Message(who, "Uncaught exception", 0))

\* sqlite3.connect and CREATE TABLE data(...): the statement fails when the
\* table is there already, and is durable at once when it succeeds.  A run
\* that failed may be started again once the pipeline is through.
ConvertStart ==
    /\ IF conv.pc = "idle"
       THEN scan.target = "A" /\ Ended(scan.pc)
       ELSE conv.pc \in {"aborted", "killed"} /\ Ended(cmp.pc)
    /\ conv.runs < MaxConverts
    /\ IF db.table
       THEN /\ conv' = [conv EXCEPT !.pc = "aborted", !.runs = @ + 1]
            /\ diag' = Uncaught("convert")
            /\ UNCHANGED db
       ELSE /\ \E b \in 1..MaxBatch :
                  conv' = [pc |-> "root", pos |-> 1, rows_seen |-> 0, root |-> <<>>,
                           batch |-> b, runs |-> conv.runs + 1]
            /\ db' = [db EXCEPT !.table = TRUE]
            /\ UNCHANGED diag
    /\ UNCHANGED << tree, edits, scan, log, fault, txn, cmp, report, hist >>

\* the first line: root = Path(parseln(line)[1])
ConvertRoot ==
    /\ conv.pc = "root"
    /\ LET parsed == RootOf(parseln(readline(log["A"], conv.pos)))
       IN  IF parsed.ok
           THEN /\ conv' = [conv EXCEPT !.pc = "rows", !.pos = @ + 1, !.root = parsed.str.s]
                /\ UNCHANGED diag
           ELSE /\ conv' = [conv EXCEPT !.pc = "aborted"]
                /\ diag' = Uncaught("convert")
    /\ UNCHANGED << tree, edits, scan, log, fault, db, txn, cmp, report, hist >>

\* what one pass of the loop of do_convert makes of a line: the row to
\* insert, or an exception
ConvertLine(line, root, rows) ==
    LET parsed == FileInfoOf(parseln(line))
        under == parsed.ok /\ parsed.obj["path"].t = "str"
                    /\ IsUnder(parsed.obj["path"].s, root)
        info == [parsed.obj EXCEPT !["path"] = PyStr(relative_to(parsed.obj["path"].s, root))]
        row == StoredRow(info)
    IN  [ok |-> under /\ ~Conflicts(rows, row), row |-> row]

\* one record line: parse, relativize, INSERT, and commit when rows_seen
\* reaches a multiple of the interval
ConvertRow ==
    /\ conv.pc = "rows"
    /\ conv.pos <= Len(log["A"])
    /\ LET res == ConvertLine(readline(log["A"], conv.pos), conv.root, db.rows \o txn)
           seen == conv.rows_seen + 1
       IN  IF res.ok
           THEN /\ conv' = [conv EXCEPT !.pos = @ + 1, !.rows_seen = seen]
                /\ IF seen % conv.batch = 0
                   THEN /\ db' = [db EXCEPT !.rows = @ \o Append(txn, res.row)]
                        /\ txn' = <<>>
                        /\ diag' = Append(diag, Message("convert", "Rows seen", seen))
                   ELSE /\ txn' = Append(txn, res.row)
                        /\ UNCHANGED << db, diag >>
           ELSE /\ conv' = [conv EXCEPT !.pc = "aborted"]
                /\ txn' = <<>>
                /\ diag' = Uncaught("convert")
                /\ UNCHANGED db
    /\ UNCHANGED << tree, edits, scan, log, fault, cmp, report, hist >>

\* the end of the file: the last commit, and the connection is closed
ConvertFinish ==
    /\ conv.pc = "rows"
    /\ conv.pos > Len(log["A"])
    /\ db' = [db EXCEPT !.rows = @ \o txn]
    /\ txn' = <<>>
    /\ diag' = Append(diag, Message("convert", "Rows seen", conv.rows_seen))
    /\ conv' = [conv EXCEPT !.pc = "done"]
    /\ UNCHANGED << tree, edits, scan, log, fault, cmp, report, hist >>

\* the process dies (crash, kill, power loss): SQLite rolls the open
\* transaction back, what was committed stays
ConvertKill ==
    /\ conv.pc \in {"root", "rows"}
    /\ fault = "none"
    /\ fault' = "convert killed"
    /\ conv' = [conv EXCEPT !.pc = "killed"]
    /\ txn' = <<>>
    /\ UNCHANGED << tree, edits, scan, log, db, cmp, report, diag, hist >>

(* ------------------------------- compare ------------------------------ *)

\* FileInfo(*rows[0]): the row as Python gets it back
FileInfoOfRow(row) == [f \in FieldSet |-> row[f]]

\* info == new_info on two FileInfo tuples
InfoEq(info, new_info) == \A f \in FieldSet : PyEq(info[f], new_info[f])

\* the loop over info._fields that collects the fields that differ
Diff(info, new_info) ==
    LET Differs(f) == ~PyEq(info[f], new_info[f])
    IN  SelectSeq(Fields, Differs)

\* a tolerance that drops every DIR whose diff holds size
ToleratedWithSize(tag, diff) == tag = "DIR" /\ \E i \in DOMAIN diff : diff[i] = "size"

\* the directory size tolerance: no line for a DIR whose diff is ["size"]
Tolerated(tag, diff) == tag = "DIR" /\ diff = <<"size">>

ReportLine(tag, path, kind, diff) == [tag |-> tag, path |-> path, kind |-> kind, diff |-> diff]

\* What one pass of the loop of do_compare makes of a line: an exception, or
\* the outcome for the record.  emitted is the tag of the line written,
\* "NONE" when no line is written.
CompareLine(line, root, store) ==
    LET parsed == FileInfoOf(parseln(line))
        under == parsed.ok /\ parsed.obj["path"].t = "str"
                    /\ IsUnder(parsed.obj["path"].s, root)
        info == [parsed.obj EXCEPT !["path"] = PyStr(relative_to(parsed.obj["path"].s, root))]
        rows == Select(store.rows, info["path"])
        new_info == FileInfoOfRow(rows[1])
        diff == IF Len(rows) = 1 THEN Diff(info, new_info) ELSE <<>>
        emitted == IF Len(rows) = 0 THEN "MISSING"
                   ELSE IF InfoEq(info, new_info) THEN "OK"
                   ELSE IF Tolerated(parsed.tag, diff) THEN "NONE"
                   ELSE "MISMATCH"
    IN  IF ~under \/ ~store.table \/ Len(rows) > 1
        THEN [ok |-> FALSE, emitted |-> "NONE", found |-> 0, diff |-> <<>>,
              line |-> ReportLine("", None, "", <<>>)]
        ELSE [ok |-> TRUE, emitted |-> emitted, found |-> Len(rows), diff |-> diff,
              line |-> IF emitted = "MISMATCH"
                       THEN ReportLine("MISMATCH", info["path"], parsed.tag, diff)
                       ELSE ReportLine(emitted, info["path"], "", <<>>)]

\* sqlite3.connect and the opening of the output
CompareStart ==
    /\ scan.target = "B" /\ Ended(scan.pc)
    /\ cmp.pc = "idle"
    /\ cmp' = [cmp EXCEPT !.pc = "root", !.pos = 1]
    /\ UNCHANGED << tree, edits, scan, log, fault, conv, db, txn, report, diag, hist >>

\* the first line: root = Path(parseln(line)[1])
CompareRoot ==
    /\ cmp.pc = "root"
    /\ LET parsed == RootOf(parseln(readline(log["B"], cmp.pos)))
       IN  IF parsed.ok
           THEN /\ cmp' = [cmp EXCEPT !.pc = "rows", !.pos = @ + 1, !.root = parsed.str.s]
                /\ UNCHANGED diag
           ELSE /\ cmp' = [cmp EXCEPT !.pc = "aborted"]
                /\ diag' = Uncaught("compare")
    /\ UNCHANGED << tree, edits, scan, log, fault, conv, db, txn, report, hist >>

\* a line put in front of the report
EmitFirst(out, line) == <<line>> \o out

\* writing a line to the report
Emit(out, line) == Append(out, line)

\* one record line: parse, relativize, SELECT, classify, write the line
CompareRow ==
    /\ cmp.pc = "rows"
    /\ cmp.pos <= Len(log["B"])
    /\ LET res == CompareLine(readline(log["B"], cmp.pos), cmp.root, db)
           seen == cmp.rows_seen + 1
           out == IF res.emitted = "NONE" THEN report ELSE Emit(report, res.line)
       IN  IF res.ok
           THEN /\ report' = out
                /\ hist' = Append(hist, [line |-> cmp.pos, found |-> res.found,
                                         diff |-> res.diff, emitted |-> res.emitted,
                                         at |-> IF res.emitted = "NONE" THEN 0 ELSE Len(out)])
                /\ cmp' = [cmp EXCEPT !.pos = @ + 1, !.rows_seen = seen]
                /\ diag' = IF seen % conv.batch = 0
                           THEN Append(diag, Message("compare", "Rows seen", seen))
                           ELSE diag
           ELSE /\ cmp' = [cmp EXCEPT !.pc = "aborted"]
                /\ diag' = Uncaught("compare")
                /\ UNCHANGED << report, hist >>
    /\ UNCHANGED << tree, edits, scan, log, fault, conv, db, txn >>

\* the end of the file: the report and the connection are closed
CompareFinish ==
    /\ cmp.pc = "rows"
    /\ cmp.pos > Len(log["B"])
    /\ cmp' = [cmp EXCEPT !.pc = "done"]
    /\ UNCHANGED << tree, edits, scan, log, fault, conv, db, txn, report, diag, hist >>

(* --------------------------- specification ---------------------------- *)

\* the pipeline on a tree that changes between the two scans
Next ==
    \/ HashStart
    \/ HashVisit
    \/ HashFinish
    \/ Edit
    \/ ConvertStart
    \/ ConvertRoot
    \/ ConvertRow
    \/ ConvertFinish
    \/ CompareStart
    \/ CompareRoot
    \/ CompareRow
    \/ CompareFinish

Spec == Init /\ [][Next]_vars

\* the pipeline on an unchanged tree, with one fault: an interrupted scan, a
\* duplicated record line or a convert that dies
NextFaults ==
    \/ HashStart
    \/ HashVisit
    \/ HashFinish
    \/ HashKill
    \/ DuplicateLine
    \/ ConvertStart
    \/ ConvertRoot
    \/ ConvertRow
    \/ ConvertFinish
    \/ ConvertKill
    \/ CompareStart
    \/ CompareRoot
    \/ CompareRow
    \/ CompareFinish

SpecFaults == Init /\ [][NextFaults]_vars

(* ------------------- reading the logs and the store ------------------- *)

\* the record lines of a log, decoded
Decoded(file) == [i \in 1..(Len(file) - 1) |-> FileInfoOf(parseln(file[i + 1]))]

\* the paths of the record lines of a log, relative to Root
RecordPaths(file) ==
    [i \in 1..(Len(file) - 1) |-> relative_to(Decoded(file)[i].obj["path"].s, Root)]

\* the entries of a tree
Entries(t) == { p \in EntryPaths : Exists(t, p) }

\* the record compare read at line k of log B, its path made relative
InputInfo(k) ==
    LET rec == Decoded(log["B"])[k - 1]
    IN  [rec.obj EXCEPT !["path"] = PyStr(relative_to(rec.obj["path"].s, Root))]

InputTag(k) == Decoded(log["B"])[k - 1].tag

\* the rows of the Store whose path is the text p
RowsAt(p) ==
    LET At(r) == r["path"] = p
    IN  SelectSeq(db.rows, At)

\* DIR for a directory, FILE for anything else: the kind a record with this
\* mode was logged with
KindOfMode(mode) == IF S_ISDIR(mode) THEN "DIR" ELSE "FILE"

\* the fields of a FileRecord as the specification lists them
RecordFields == <<"kind", "mode", "uid", "gid", "mtime", "size", "digest">>

FieldOfInput(k, f) == IF f = "kind" THEN PyStr(<<InputTag(k)>>) ELSE InputInfo(k)[f]

FieldOfRow(row, f) == IF f = "kind" THEN PyStr(<<KindOfMode(row["mode"].n)>>) ELSE row[f]

(* -------------------------------- C1 ---------------------------------- *)

\* C1: for every record compare has read, MISSING is emitted iff the Store
\* has no row for the record's relative path, OK iff there is exactly one row
\* and kind, mode, uid, gid, mtime, size and digest of the record equal those
\* of the stored record, and otherwise the diff is the list of those fields
\* that differ, in declaration order.
C1_OutcomePerRecord ==
    \A i \in DOMAIN hist :
        LET h == hist[i]
            rows == RowsAt(InputInfo(h.line)["path"])
            Differs(f) == FieldOfInput(h.line, f) # FieldOfRow(rows[1], f)
            differing == IF Len(rows) = 1 THEN SelectSeq(RecordFields, Differs) ELSE <<>>
        IN  /\ (h.emitted = "MISSING") <=> (Len(rows) = 0)
            /\ (h.emitted = "OK") <=> (Len(rows) = 1 /\ differing = <<>>)
            /\ (h.emitted \notin {"MISSING", "OK"}) => (h.diff = differing)

(* -------------------------------- C2 ---------------------------------- *)

\* the row the lookup of record k finds, and the fields in which it differs
\* from the record
FoundRow(k) == Select(db.rows, InputInfo(k)["path"])[1]

DifferingFields(k) ==
    LET Differs(f) == ~PyEq(InputInfo(k)[f], FoundRow(k)[f])
    IN  SelectSeq(Fields, Differs)

SuppressedNotices ==
    { i \in DOMAIN diag : diag[i].who = "compare" /\ diag[i].msg = "Suppressed" }

\* C3: when compare finishes, the report lines and the explicit notices for
\* suppressed records together account for every input record.
C3_EveryRecordAccounted ==
    cmp.pc = "done" =>
        Len(report) + Cardinality(SuppressedNotices) = Len(log["B"]) - 1

(* -------------------------------- C4 ---------------------------------- *)

\* C4: comparing a log against the Store built from the same log yields OK
\* for every record and nothing else.
C4_SelfCompareAllOk ==
    (conv.pc = "done" /\ cmp.pc = "done" /\ log["B"] = log["A"]) =>
        /\ Len(report) = Len(log["B"]) - 1
        /\ \A k \in DOMAIN report : report[k].tag = "OK"

(* -------------------------------- C5 ---------------------------------- *)

\* C5: after a convert run that aborted or died, the destination holds
\* neither the table nor any row.
C5_NoPartialStore ==
    conv.pc \in {"aborted", "killed"} => (~db.table /\ db.rows = <<>>)

(* -------------------------------- C6 ---------------------------------- *)

\* the rows of the table as the connection of convert sees them
AllRows == db.rows \o txn

\* C6: no two rows of the Store have the same path; a convert run over a log
\* in which a path occurs twice never completes; and no lookup by path finds
\* more than one row.
C6_PathIsKey ==
    /\ \A i, j \in DOMAIN AllRows :
          i # j => (/\ AllRows[i]["path"] # AllRows[j]["path"]
                    /\ ~SqlEq(AllRows[i]["path"], AllRows[j]["path"]))
    /\ conv.pc = "done" =>
          \A i, j \in DOMAIN RecordPaths(log["A"]) :
              i # j => RecordPaths(log["A"])[i] # RecordPaths(log["A"])[j]
    /\ \A p \in EntryPaths : Len(Select(AllRows, PyStr(p))) <= 1
    /\ \A i \in DOMAIN hist : hist[i].found <= 1

\* convert has read the second occurrence of a path, after inserting the
\* first, and has aborted on it
C6_Witness ==
    /\ fault = "duplicate"
    /\ conv.pc = "aborted"
    /\ conv.pos = Len(log["A"])
    /\ conv.rows_seen = Len(log["A"]) - 2
    /\ \E i \in 1..(conv.pos - 2) :
          RecordPaths(log["A"])[i] = RecordPaths(log["A"])[conv.pos - 1]

(* -------------------------------- C7 ---------------------------------- *)

\* a line that is not a whole record: its payload is not closed
IncompleteLine(line) ==
    LET body == IF Len(line) > 0 /\ line[Len(line)].k = "nl"
                THEN SubSeq(line, 1, Len(line) - 1) ELSE line
    IN  ~ (/\ Len(body) >= 3
           /\ IF body[Len(body)].k = "quote" THEN Len(body) = 5
              ELSE body[Len(body)].k = "}")

\* a log that is empty or ends in a line that is not a whole record
CutInLine(file) == IF file = <<>> THEN TRUE ELSE IncompleteLine(file[Len(file)])

\* a log left by an interrupted scan that lacks a part of the complete log
Partial(file) ==
    IF CutInLine(file) THEN TRUE ELSE Len(file) - 1 < Cardinality(Entries(tree))

\* C7: neither convert nor compare finishes successfully on a partial log
\* left by an interrupted scan.
C7_PartialLogRejected ==
    /\ (scan.target = "A" /\ fault = "hash killed" /\ Partial(log["A"])) => conv.pc # "done"
    /\ (scan.target = "B" /\ fault = "hash killed" /\ Partial(log["B"])) => cmp.pc # "done"

\* the part of C7 that the code does enforce: a log that is empty or whose
\* last line is cut is never read to its end
CutLineRejected ==
    /\ (scan.target = "A" /\ scan.pc = "killed" /\ CutInLine(log["A"])) =>
          (conv.pc # "done" /\ (conv.pc = "rows" => conv.pos <= Len(log["A"])))
    /\ (scan.target = "B" /\ scan.pc = "killed" /\ CutInLine(log["B"])) =>
          (cmp.pc # "done" /\ (cmp.pc = "rows" => cmp.pos <= Len(log["B"])))

(* -------------------------------- C8 ---------------------------------- *)

\* the records that got a report line
Reported == { i \in DOMAIN hist : hist[i].at # 0 }

\* C8: the report holds exactly one line per record that produced one, each
\* at the position its record has among the reporting records of the input.
C8_ReportInInputOrder ==
    /\ \A i \in DOMAIN hist : hist[i].line = i + 1
    /\ Len(report) = Cardinality(Reported)
    /\ \A i \in Reported :
          /\ hist[i].at = Cardinality({ j \in Reported : j <= i })
          /\ report[hist[i].at].tag = hist[i].emitted
          /\ report[hist[i].at].path = InputInfo(hist[i].line)["path"]

\* a finished run in which a suppressed record lies between reported ones
C8_Witness ==
    /\ cmp.pc = "done"
    /\ Len(report) >= 3
    /\ \E i, j, k \in DOMAIN hist :
          i < j /\ j < k /\ hist[i].at # 0 /\ hist[j].at = 0 /\ hist[k].at # 0

(* -------------------------------- C9 ---------------------------------- *)

\* C9: after a successful convert the Store holds one row per record line,
\* in which the path is the record's path relative to the root and every
\* other field is the record's.
C9_StoreIsLog ==
    conv.pc = "done" =>
        /\ Len(db.rows) = Len(log["A"]) - 1
        /\ \A i \in DOMAIN db.rows :
              db.rows[i] = [Decoded(log["A"])[i].obj
                               EXCEPT !["path"] = PyStr(RecordPaths(log["A"])[i])]

(* -------------------------------- C10 --------------------------------- *)

IsPrefix(d, e) == Len(d) <= Len(e) /\ SubSeq(e, 1, Len(d)) = d

\* directory d is walked before directory e: d is above e, or at the first
\* name in which they part d's name sorts first
WalkedBefore(d, e) ==
    IF IsPrefix(d, e) THEN TRUE
    ELSE IF IsPrefix(e, d) THEN FALSE
    ELSE LET k == CHOOSE n \in 1..Len(d) :
                     d[n] # e[n] /\ \A m \in 1..(n - 1) : d[m] = e[m]
         IN  Rank(d[k]) < Rank(e[k])

\* The order of the walk.  file is the log of a complete scan of tree t;
\* InDirGroup says which entries count as child directories.
WalkOrder(t, file, InDirGroup(_)) ==
    LET paths == RecordPaths(file)
        Name(p) == p[Len(p)]
        SiblingBefore(x, y) ==
            IF InDirGroup(x) = InDirGroup(y) THEN Rank(Name(x)) < Rank(Name(y))
            ELSE InDirGroup(x)
        Before(x, y) ==
            IF Parent(x) = Parent(y) THEN SiblingBefore(x, y)
            ELSE WalkedBefore(Parent(x), Parent(y))
    IN  /\ Len(file) >= 1
        /\ file[1] = println("ROOT", dumps_str(PyStr(Root)))
        /\ Len(file) - 1 = Cardinality(Entries(t))
        /\ { paths[i] : i \in DOMAIN paths } = Entries(t)
        /\ \A i \in DOMAIN paths : file[i + 1] = EntryLine(t, paths[i])
        /\ \A i, j \in DOMAIN paths : i < j => Before(paths[i], paths[j])
        /\ \A i, j \in DOMAIN paths :
              (paths[i] # paths[j] /\ IsPrefix(paths[i], paths[j])) => i < j

\* the log of the scan that has just finished describes the current tree
ScanIsCurrent == scan.pc = "done" /\ (scan.target = "B" \/ edits = 0)

====
